---- MODULE Spec2Model ----
(***************************************************************************)
(* seed-rust: a websocket relay of encrypted messages.                     *)
(*                                                                         *)
(* One session handler (WebSocketActor::handle) runs per connection.  It   *)
(* reads inbound frames, validates Send messages, inserts them into the    *)
(* messages table (PostgresDatabase::insert_message), registers            *)
(* subscriptions in its WebSocketManager and answers with status frames.   *)
(* The steps of a handler are the points at which its future suspends      *)
(* (database round trips, writes to the session).                          *)
(***************************************************************************)
EXTENDS Integers, Sequences, FiniteSets, TLC

(***************************************************************************)
(* Bounds of the model.                                                    *)
(***************************************************************************)
MaxFrames == 3      \* inbound text frames the server takes, all connections
MaxNonce == 2       \* largest nonce a client puts into a message
MaxSeed == 1        \* rows of queue "a" already in the table at start-up
MaxBacklog == 3     \* rows of queue "a" in the table when a backlog is replayed
WordBits == 4       \* bits of usize and of i64 in the model (64 in the build)
MESSAGES_LIMIT == 2 \* rows of one history batch in the model (100 in the source)
MaxTextLen == 4     \* longest text of one group given to decode_base64
MaxBytesLen == 4    \* longest byte string given to encode_base64

Conns == {"A", "B"}

(***************************************************************************)
(* Text on the wire.  A string is a sequence of character codes: 0..63 are *)
(* the characters of the standard base64 alphabet (by value), PadChar is   *)
(* '=' and BadChar is a character outside the alphabet ('!').              *)
(***************************************************************************)
PadChar == 64
BadChar == 65

Pow2(n) == 2 ^ n

PadCount(s) ==
    IF Len(s) >= 1 /\ s[Len(s)] = PadChar
    THEN IF Len(s) >= 2 /\ s[Len(s) - 1] = PadChar THEN 2 ELSE 1
    ELSE 0

\* The value of character i of s as a sextet (padding counts as 0).
Sextet(s, i) == IF s[i] \in 0..63 THEN s[i] ELSE 0

\* The 24-bit value of the g-th group of four characters.
Quantum(s, g) ==
    Sextet(s, 4 * g - 3) * Pow2(18) + Sextet(s, 4 * g - 2) * Pow2(12)
        + Sextet(s, 4 * g - 1) * Pow2(6) + Sextet(s, 4 * g)

QuantumBytes(v) == << v \div Pow2(16), (v \div Pow2(8)) % 256, v % 256 >>

RECURSIVE DecodeGroups(_, _)
DecodeGroups(s, g) ==
    IF g = 0 THEN << >> ELSE DecodeGroups(s, g - 1) \o QuantumBytes(Quantum(s, g))

\* general_purpose::STANDARD accepts a string iff its length is a multiple
\* of four, all characters before the padding are in the alphabet, the
\* padding is canonical and the bits not covered by the output are zero.
Base64Accepts(s) ==
    /\ Len(s) % 4 = 0
    /\ \A i \in 1..(Len(s) - PadCount(s)) : s[i] \in 0..63
    /\ PadCount(s) = 1 => s[Len(s) - 1] % 4 = 0
    /\ PadCount(s) = 2 => s[Len(s) - 2] % 16 = 0

\* A decode_base64 that does not look at the bits of the last character
\* that the output does not cover.
decode_base64_trailing_bits(input) ==
    IF /\ Len(input) % 4 = 0
       /\ \A i \in 1..(Len(input) - PadCount(input)) : input[i] \in 0..63
    THEN [ok |-> TRUE,
          bytes |-> SubSeq(DecodeGroups(input, Len(input) \div 4), 1,
                           3 * (Len(input) \div 4) - PadCount(input))]
    ELSE [ok |-> FALSE, bytes |-> << >>]

\* decode_base64: Ok(bytes) or Err(DecodeError).
decode_base64(input) ==
    IF Base64Accepts(input)
    THEN [ok |-> TRUE,
          bytes |-> SubSeq(DecodeGroups(input, Len(input) \div 4), 1,
                           3 * (Len(input) \div 4) - PadCount(input))]
    ELSE [ok |-> FALSE, bytes |-> << >>]

RECURSIVE encode_base64(_)
\* encode_base64: the standard alphabet with padding.
encode_base64(input) ==
    IF Len(input) = 0 THEN << >>
    ELSE IF Len(input) = 1
         THEN << input[1] \div 4, (input[1] % 4) * 16, PadChar, PadChar >>
    ELSE IF Len(input) = 2
         THEN << input[1] \div 4, (input[1] % 4) * 16 + input[2] \div 16,
                 (input[2] % 16) * 4, PadChar >>
    ELSE << input[1] \div 4, (input[1] % 4) * 16 + input[2] \div 16,
            (input[2] % 16) * 4 + input[3] \div 64, input[3] % 64 >>
            \o encode_base64(SubSeq(input, 4, Len(input)))

\* The inputs of the conversions checked by themselves: texts of up to
\* MaxTextLen characters and texts of two groups, over characters of the
\* alphabet with and without low bits set, the padding and a character
\* outside the alphabet; byte strings of up to MaxBytesLen bytes.
TextChars == {0, 1, 16, 17, 63, PadChar, BadChar}

ByteValues == {0, 1, 97, 255}

Strings(S, n) == UNION { [1..k -> S] : k \in 0..n }

CodecTexts ==
    Strings(TextChars, MaxTextLen)
        \cup { g \o t : g \in [1..4 -> {0, 63}], t \in [1..4 -> TextChars] }

CodecBytes == Strings(ByteValues, MaxBytesLen)

\* A conversion: where it started (a text, a byte string), how many of
\* decode_base64 and encode_base64 were applied, and what they returned.
Codec(origin, input) ==
    [origin |-> origin, input |-> input, stage |-> 0, ok |-> TRUE,
     text |-> IF origin = "text" THEN input ELSE << >>,
     bytes |-> IF origin = "bytes" THEN input ELSE << >>]

CodecIdle == Codec("none", << >>)

\* Strings clients send.
StrQueueA == << 24, 16, 64, 64 >>       \* "YQ==", the bytes "a"
StrQueueB == << 24, 32, 64, 64 >>       \* "Yg==", the bytes "b"
StrSig == << 28, 48, 64, 64 >>          \* "cw==", the bytes "s"
StrContent == << 30, 0, 64, 64 >>       \* "eA==", the bytes "x"
StrIV == << 26, 16, 64, 64 >>           \* "aQ==", the bytes "i"
StrBad == << BadChar, BadChar, BadChar >>   \* "!!!"

QueueStrs == {StrQueueA, StrQueueB}

(***************************************************************************)
(* Messages and inbound frames.                                            *)
(***************************************************************************)
\* entity::message::Message
Message(nonce, chat_id, signature, content, content_iv) ==
    [nonce |-> nonce, chat_id |-> chat_id, signature |-> signature,
     content |-> content, content_iv |-> content_iv]

\* Messages whose fields all decode: any nonce for queue "a", the first
\* nonce for queue "b".
GoodMessages ==
    { Message(n, StrQueueA, StrSig, StrContent, StrIV) : n \in 0..MaxNonce }
        \cup { Message(1, StrQueueB, StrSig, StrContent, StrIV) }

\* One message per field that fails to decode.
BadMessages ==
    { Message(1, StrBad, StrSig, StrContent, StrIV),
      Message(1, StrQueueA, StrBad, StrContent, StrIV),
      Message(1, StrQueueA, StrSig, StrBad, StrIV),
      Message(1, StrQueueA, StrSig, StrContent, StrBad) }

ClientMessages == GoodMessages \cup BadMessages

\* Message::default()
MessageDefault == Message(0, << >>, << >>, << >>, << >>)

\* The parsed envelope: its type and its optional message (some is FALSE
\* when the envelope carries none).
Income(rtype, some, message) == [rtype |-> rtype, some |-> some, message |-> message]

WithMessage(rtype, message) == Income(rtype, TRUE, message)

WithoutMessage(rtype) == Income(rtype, FALSE, MessageDefault)

NoRequest == WithoutMessage("none")

\* The "send" envelopes clients send.
SendEnvelopes ==
    { WithMessage("send", m) : m \in ClientMessages } \cup {WithoutMessage("send")}

\* The "subscribe" and "unsubscribe" envelopes clients send: from nonce 1,
\* for each queue and for a queue id that does not decode.
SubscriptionEnvelopes(rtype) ==
    { WithMessage(rtype, Message(1, q, StrSig, StrContent, StrIV)) :
        q \in QueueStrs \cup {StrBad} } \cup {WithoutMessage(rtype)}

(***************************************************************************)
(* The messages table.  A row holds decoded bytes; the table has no key,   *)
(* so it is the sequence of the rows inserted.                             *)
(***************************************************************************)
Row(nonce, chat_id, signature, content, content_iv) ==
    [nonce |-> nonce, chat_id |-> chat_id, signature |-> signature,
     content |-> content, content_iv |-> content_iv]

RowsOf(table, chat_id) == { i \in 1..Len(table) : table[i].chat_id = chat_id }

SetMax(S) == CHOOSE x \in S : \A y \in S : y <= x

\* get_last_nonce: SELECT MAX(nonce) FROM messages WHERE chat_id = $1 is
\* NULL without rows, and then the result is Err(NotFound).
get_last_nonce(table, chat_id) ==
    IF RowsOf(table, chat_id) = {}
    THEN [ok |-> FALSE, nonce |-> 0]
    ELSE [ok |-> TRUE,
          nonce |-> SetMax({ table[i].nonce : i \in RowsOf(table, chat_id) })]

\* The row the INSERT of insert_message writes: $1 is last_nonce.
InsertedRow(message, last_nonce) ==
    Row(last_nonce,
        decode_base64(message.chat_id).bytes,
        decode_base64(message.signature).bytes,
        decode_base64(message.content).bytes,
        decode_base64(message.content_iv).bytes)

\* The decodes of insert_message, all done before the first query runs.
InsertDecodes(message) ==
    /\ decode_base64(message.chat_id).ok
    /\ decode_base64(message.signature).ok
    /\ decode_base64(message.content).ok
    /\ decode_base64(message.content_iv).ok

\* is_valid_message: chat_id, signature and content_iv decode.
is_valid_message(message) ==
    /\ decode_base64(message.chat_id).ok
    /\ decode_base64(message.signature).ok
    /\ decode_base64(message.content_iv).ok

\* usize::MAX
UsizeMax == Pow2(WordBits) - 1

\* `n as i64` of a usize n: the same bits read as a signed number.
AsI64(n) == IF n >= Pow2(WordBits - 1) THEN n - Pow2(WordBits) ELSE n

\* `i as usize` of an i64 i.
AsUsize(i) == IF i < 0 THEN i + Pow2(WordBits) ELSE i

\* usize::checked_add
checked_add(a, b) ==
    IF a + b > UsizeMax THEN [some |-> FALSE, value |-> 0]
    ELSE [some |-> TRUE, value |-> a + b]

\* ORDER BY nonce ASC over the rows S of the table: their indices by
\* ascending nonce, rows of equal nonce in the order of insertion.
RECURSIVE OrderByNonce(_, _)
OrderByNonce(table, S) ==
    IF S = {} THEN << >>
    ELSE LET first == CHOOSE i \in S : \A j \in S :
                         \/ table[i].nonce < table[j].nonce
                         \/ table[i].nonce = table[j].nonce /\ i <= j
         IN  << first >> \o OrderByNonce(table, S \ {first})

\* LIMIT amount
Limit(seq, amount) ==
    IF amount <= 0 THEN << >>
    ELSE IF Len(seq) <= amount THEN seq
    ELSE SubSeq(seq, 1, amount)

\* The OutcomeMessage fetch_history makes of a row: content_iv is encoded
\* from row.chat_id.
OutcomeOfRow(row) ==
    Message(AsUsize(row.nonce),
            encode_base64(row.chat_id),
            encode_base64(row.signature),
            encode_base64(row.content),
            encode_base64(row.chat_id))

\* fetch_history when the query succeeds: WHERE chat_id = $1 AND
\* nonce >= $2 ORDER BY nonce ASC LIMIT $3, with $2 = nonce as i64 and
\* $3 = amount as i64.
fetch_history(table, chat_id, nonce, amount) ==
    LET rows == { i \in RowsOf(table, chat_id) : table[i].nonce >= AsI64(nonce) }
        kept == Limit(OrderByNonce(table, rows), AsI64(amount))
    IN  [k \in 1..Len(kept) |-> OutcomeOfRow(table[kept[k]])]

\* Tables the server can find at start-up: queue "a" holds the rows 1..k,
\* queue "b" was never used.
RECURSIVE SeedRows(_, _)
SeedRows(chat_id, k) ==
    IF k = 0 THEN << >>
    ELSE SeedRows(chat_id, k - 1)
            \o << Row(k, chat_id, decode_base64(StrSig).bytes,
                      decode_base64(StrContent).bytes, decode_base64(StrIV).bytes) >>

InitialTables == { SeedRows(decode_base64(StrQueueA).bytes, k) : k \in 0..MaxSeed }

\* Tables a backlog is replayed from: queue "a" holds the rows 1..k.
BacklogTables == { SeedRows(decode_base64(StrQueueA).bytes, k) : k \in 0..MaxBacklog }

(***************************************************************************)
(* WebSocketManager: connections, chats and message_queues.  The maps are  *)
(* functions on their key sets; a channel of message_queues is the         *)
(* sequence of the events sent into it and not yet received.               *)
(***************************************************************************)
EmptyMap == [k \in {} |-> {}]

MapPut(f, k, v) == [x \in DOMAIN f \cup {k} |-> IF x = k THEN v ELSE f[x]]

MapRemove(f, k) == [x \in DOMAIN f \ {k} |-> f[x]]

\* map.entry(k).or_default(): the entry is created empty when absent.
EntryOrDefault(f, k, default) == IF k \in DOMAIN f THEN f ELSE MapPut(f, k, default)

\* WebSocketManager::default()
ManagerDefault ==
    [connections |-> EmptyMap, chats |-> EmptyMap, message_queues |-> EmptyMap]

\* A subscribe_to_chat that records the chat on the connection's side only.
subscribe_to_chat_one_sided(ws, connection, chat_id) ==
    [ws EXCEPT !.connections =
        MapPut(ws.connections, connection,
               (IF connection \in DOMAIN ws.connections
                THEN ws.connections[connection] ELSE {}) \cup {chat_id})]

\* subscribe_to_chat up to the check for a message processor: both maps get
\* an entry (an empty set when there was none).
subscribe_to_chat(ws, connection, chat_id) ==
    [ws EXCEPT !.connections = EntryOrDefault(ws.connections, connection, {}),
               !.chats = EntryOrDefault(ws.chats, chat_id, {})]

\* start_message_processor up to its loop: a fresh unbounded channel is
\* stored under chat_id (replacing an entry that was there).
start_message_processor(ws, chat_id) ==
    [ws EXCEPT !.message_queues = MapPut(ws.message_queues, chat_id, << >>)]

\* An unsubscribe_from_chat that never returns.
unsubscribe_from_chat_blocks(ws, connection, chat_id) ==
    [ws |-> ws, hung |-> TRUE]

\* unsubscribe_from_chat.  An entry guard (get_mut) is held while the same
\* entry is removed from the map: that remove never returns (hung).
unsubscribe_from_chat(ws, connection, chat_id) ==
    LET conn == IF connection \in DOMAIN ws.connections
                THEN ws.connections[connection] \ {chat_id} ELSE {}
        hung1 == connection \in DOMAIN ws.connections /\ conn = {}
        ws1 == IF connection \in DOMAIN ws.connections
               THEN [ws EXCEPT !.connections = MapPut(ws.connections, connection, conn)]
               ELSE ws
        chats == IF chat_id \in DOMAIN ws1.chats
                 THEN ws1.chats[chat_id] \ {connection} ELSE {}
        hung2 == chat_id \in DOMAIN ws1.chats /\ chats = {}
        ws2 == IF chat_id \in DOMAIN ws1.chats
               THEN [ws1 EXCEPT !.chats = MapPut(ws1.chats, chat_id, chats)]
               ELSE ws1
    IN  IF hung1 THEN [ws |-> ws1, hung |-> TRUE]
        ELSE [ws |-> ws2, hung |-> hung2]

\* A disconnect that leaves an entry of the connection in the map.
disconnect_leaves_entry(ws, connection) ==
    [ws |-> [ws EXCEPT !.connections = MapPut(ws.connections, connection, {})],
     hung |-> FALSE]

\* disconnect after the session was closed.  The guard of
\* ws.connections.get is held while every chat of the connection is
\* unsubscribed, so an unsubscribe that locks the entry never returns.
disconnect(ws, connection) ==
    IF connection \in DOMAIN ws.connections /\ ws.connections[connection] # {}
    THEN [ws |-> ws, hung |-> TRUE]
    ELSE [ws |-> [ws EXCEPT !.connections = MapRemove(ws.connections, connection)],
          hung |-> FALSE]

(***************************************************************************)
(* Outbound frames (entity::response::SeedResponse).                       *)
(***************************************************************************)
Status(status) == [type |-> "response", status |-> status]

NewEvent(message) == [type |-> "event", rtype |-> "new", message |-> message]

WaitEvent(chat_id) == [type |-> "event", rtype |-> "wait", chat_id |-> chat_id]

\* session.text(frame): the frame is written unless the session is closed.
SessionText(out, closed, frame) == IF closed THEN out ELSE Append(out, frame)

(***************************************************************************)
(* JSON on the wire (serde_json).  A JSON value is a string, a number, a   *)
(* boolean or an object; an object is the sequence of its members in the   *)
(* order of the text.  Strings of a message are carried as they are.       *)
(***************************************************************************)
JStr(s) == [kind |-> "string", str |-> s, num |-> 0, bool |-> FALSE, obj |-> << >>]

JNum(n) == [kind |-> "number", str |-> "", num |-> n, bool |-> FALSE, obj |-> << >>]

JBool(b) == [kind |-> "boolean", str |-> "", num |-> 0, bool |-> b, obj |-> << >>]

JObj(members) ==
    [kind |-> "object", str |-> "", num |-> 0, bool |-> FALSE, obj |-> members]

Member(key, value) == [key |-> key, value |-> value]

\* The number of members of the object with the key, and the value of one.
Count(object, key) ==
    Cardinality({ i \in 1..Len(object.obj) : object.obj[i].key = key })

Get(object, key) ==
    object.obj[CHOOSE i \in 1..Len(object.obj) : object.obj[i].key = key].value

\* Deserialize of a struct with the fields nonce: usize and four Strings,
\* two of them under the given names: each field once, of its type, other
\* members ignored.
MessageFrom(value, chat_id_name, content_iv_name) ==
    LET names == << chat_id_name, "signature", "content", content_iv_name >>
        ok == /\ value.kind = "object"
              /\ Count(value, "nonce") = 1
              /\ Get(value, "nonce").kind = "number"
              /\ Get(value, "nonce").num \in 0..UsizeMax
              /\ \A k \in 1..4 :
                    /\ Count(value, names[k]) = 1
                    /\ Get(value, names[k]).kind = "string"
    IN  IF ok
        THEN [ok |-> TRUE,
              message |-> Message(Get(value, "nonce").num,
                                  Get(value, chat_id_name).str,
                                  Get(value, "signature").str,
                                  Get(value, "content").str,
                                  Get(value, content_iv_name).str)]
        ELSE [ok |-> FALSE, message |-> MessageDefault]

\* A Deserialize of Message without the renames of chat_id and content_iv.
deserialize_message_unrenamed(value) == MessageFrom(value, "chat_id", "content_iv")

\* Deserialize of Message: chat_id is "queueId", content_iv is "contentIV".
deserialize_message(value) == MessageFrom(value, "queueId", "contentIV")

\* Deserialize of IncomeMessage (tag = "type", content = "message"): Ok with
\* the variant and its Message, or Err.  A unit variant takes no content;
\* a tag that names no variant is an error.
deserialize_income(value) ==
    LET tagged == /\ value.kind = "object"
                  /\ Count(value, "type") = 1
                  /\ Get(value, "type").kind = "string"
        tag == Get(value, "type").str
        content == IF Count(value, "message") = 1
                   THEN deserialize_message(Get(value, "message"))
                   ELSE [ok |-> FALSE, message |-> MessageDefault]
    IN  IF ~tagged THEN [ok |-> FALSE, income |-> NoRequest]
        ELSE IF tag \in {"ping", "None"}
        THEN [ok |-> Count(value, "message") = 0, income |-> WithoutMessage(tag)]
        ELSE IF tag \in {"send", "subscribe", "unsubscribe"}
        THEN [ok |-> content.ok, income |-> WithMessage(tag, content.message)]
        ELSE [ok |-> FALSE, income |-> NoRequest]

\* Serialize of OutcomeMessage.
serialize_message(message) ==
    JObj(<< Member("nonce", JNum(message.nonce)),
            Member("queueId", JStr(message.chat_id)),
            Member("signature", JStr(message.signature)),
            Member("content", JStr(message.content)),
            Member("contentIV", JStr(message.content_iv)) >>)

\* The content of a SeedResponse: StatusResponse, NewEventDetail or
\* WaitEventDetail.
serialize_detail(frame) ==
    IF frame.type = "response"
    THEN JObj(<< Member("status", JBool(frame.status)) >>)
    ELSE IF frame.rtype = "new"
    THEN JObj(<< Member("type", JStr(frame.rtype)),
                 Member("message", serialize_message(frame.message)) >>)
    ELSE JObj(<< Member("type", JStr(frame.rtype)),
                 Member("queueId", JStr(frame.chat_id)) >>)

\* A Serialize of SeedResponse that writes the content under "message".
to_string_content_message(frame) ==
    JObj(<< Member("type", JStr(frame.type)),
            Member("message", serialize_detail(frame)) >>)

\* serde_json::to_string of a SeedResponse (tag = "type", content =
\* "response"): the tag of the variant, then its content.
to_string(frame) ==
    JObj(<< Member("type", JStr(frame.type)),
            Member("response", serialize_detail(frame)) >>)

(***************************************************************************)
(* State.                                                                  *)
(***************************************************************************)
VARIABLES
    store,           \* the messages table
    ws,              \* ws[c]: the WebSocketManager of the handler of c
    pc,              \* pc[c]: where the handler of c is suspended
    request,         \* request[c]: the envelope the handler is working on
    last_nonce,      \* last_nonce[c]: insert_message's result of get_last_nonce
    insert_result,   \* insert_result[c]: what insert_message returned
    status_arg,      \* status_arg[c]: the status the handler is about to send
    outbox,          \* outbox[c]: the frames written to the session of c
    session_closed,  \* session_closed[c]: Session::close was called
    received,        \* number of inbound text frames taken so far
    current_nonce,   \* current_nonce[c]: unread_message_response's next
                     \*   starting nonce
    raced,           \* raced[c]: an insert with the same chat and nonce
                     \*   succeeded while c was between its query and its INSERT
    accepted,        \* the inserts that returned Ok, each with the
                     \*   connections subscribed to its chat at that time
    codec            \* the base64 conversion in progress (CodecSpec)

vars == << store, ws, pc, request, last_nonce, insert_result, status_arg,
           outbox, session_closed, received, current_nonce, codec, raced,
           accepted >>

\* The handler of c asked to be subscribed to chat_id: its manager holds a
\* message queue for the chat.
Subscribed(c, chat_id) == chat_id \in DOMAIN ws[c].message_queues

ChatBytes(message) == decode_base64(message.chat_id).bytes

Init ==
    /\ store \in InitialTables
    /\ ws = [c \in Conns |-> ManagerDefault]
    /\ pc = [c \in Conns |-> "recv"]
    /\ request = [c \in Conns |-> NoRequest]
    /\ last_nonce = [c \in Conns |-> 0]
    /\ insert_result = [c \in Conns |-> "NotRun"]
    /\ status_arg = [c \in Conns |-> FALSE]
    /\ outbox = [c \in Conns |-> << >>]
    /\ session_closed = [c \in Conns |-> FALSE]
    /\ received = 0
    /\ current_nonce = [c \in Conns |-> 0]
    /\ raced = [c \in Conns |-> FALSE]
    /\ accepted = {}
    /\ codec = CodecIdle

(***************************************************************************)
(* WebSocketActor::handle, one connection c.                               *)
(***************************************************************************)
\* The handler goes on to send Status(status).
ToStatus(c, status) ==
    /\ pc' = [pc EXCEPT ![c] = "status"]
    /\ status_arg' = [status_arg EXCEPT ![c] = status]

\* A text frame arrives at the handler waiting in msg.stream.recv().
Take(c) ==
    /\ pc[c] = "recv"
    /\ received < MaxFrames
    /\ received' = received + 1

\* The handler works on the envelope.
Work(c, incoming) == request' = [request EXCEPT ![c] = incoming]

\* The iteration of the loop ends: its locals are gone.
EndIteration(c) == request' = [request EXCEPT ![c] = NoRequest]

\* A panic that takes every handler of the process down.
handler_panics_all(pcs, c) == [d \in Conns |-> "panicked"]

\* The handler of c panics: the unwinding drops the future of c's task and
\* touches no other task.
handler_panics(pcs, c) == [pcs EXCEPT ![c] = "panicked"]

\* A text frame that is no envelope: serde_json::from_str(..).unwrap()
\* panics and the handler's future is gone, its cleanup with it.
RecvMalformed(c) ==
    /\ Take(c)
    /\ pc' = handler_panics(pc, c)
    /\ UNCHANGED << store, ws, request, last_nonce, insert_result, status_arg,
                    outbox, session_closed, raced, accepted >>
    /\ UNCHANGED << current_nonce, codec >>

\* "ping"
RecvPing(c) ==
    /\ Take(c)
    /\ Work(c, WithoutMessage("ping"))
    /\ ToStatus(c, TRUE)
    /\ UNCHANGED << store, ws, last_nonce, insert_result, outbox, session_closed,
                    raced, accepted >>
    /\ UNCHANGED << current_nonce, codec >>

\* The route a "send" takes: the message is missing ("skip"), fails
\* is_valid_message ("invalid"), goes into the chat's message queue
\* ("queue"), fails a decode of insert_message ("decode") or goes on to
\* the query of insert_message ("query").
SendRoute(manager, incoming) ==
    IF ~incoming.some THEN "skip"
    ELSE IF ~is_valid_message(incoming.message) THEN "invalid"
    ELSE IF incoming.message.chat_id \in DOMAIN manager.message_queues THEN "queue"
    ELSE IF ~InsertDecodes(incoming.message) THEN "decode"
    ELSE "query"

\* "send"
RecvSend(c) ==
    \E incoming \in SendEnvelopes :
        LET route == SendRoute(ws[c], incoming) IN
        /\ Take(c)
        /\ IF route \in {"skip", "queue"} THEN EndIteration(c) ELSE Work(c, incoming)
        /\ ws' = IF route = "queue"
                 THEN [ws EXCEPT ![c].message_queues[incoming.message.chat_id] =
                          Append(@, [connection |-> c, message |-> incoming])]
                 ELSE ws
        /\ CASE route \in {"skip", "queue"} -> UNCHANGED << pc, status_arg >>
             [] route = "invalid" -> ToStatus(c, FALSE)
             [] route = "decode" -> ToStatus(c, FALSE)
             [] route = "query" ->
                    /\ pc' = [pc EXCEPT ![c] = "query"]
                    /\ UNCHANGED status_arg
        /\ UNCHANGED << store, last_nonce, insert_result, outbox, session_closed,
                        current_nonce, codec, raced, accepted >>

\* The outcome of insert_message's nonce check on what the query returned.
NonceCheck(message, last) ==
    IF ~last.ok THEN "NotFound"
    ELSE IF message.nonce # last.nonce + 1 THEN "InvalidNonce"
    ELSE "Pass"

\* insert_message: get_last_nonce is awaited and the nonce is checked.
InsertQuery(c) ==
    /\ pc[c] = "query"
    /\ \E db_ok \in BOOLEAN :
        LET last == get_last_nonce(store, ChatBytes(request[c].message))
            check == IF db_ok THEN NonceCheck(request[c].message, last)
                     ELSE "DbError"
        IN  IF check = "Pass"
            THEN /\ last_nonce' = [last_nonce EXCEPT ![c] = last.nonce]
                 /\ pc' = [pc EXCEPT ![c] = "insert"]
                 /\ UNCHANGED << insert_result, status_arg >>
            ELSE /\ insert_result' = [insert_result EXCEPT ![c] = check]
                 /\ ToStatus(c, FALSE)
                 /\ UNCHANGED last_nonce
    /\ UNCHANGED << store, ws, request, outbox, session_closed, received, raced,
                    accepted >>
    /\ UNCHANGED << current_nonce, codec >>

\* insert_message: the INSERT is executed.
InsertExecute(c) ==
    /\ pc[c] = "insert"
    /\ \E db_ok \in BOOLEAN :
        IF db_ok
        THEN /\ store' = Append(store, InsertedRow(request[c].message, last_nonce[c]))
             /\ insert_result' = [insert_result EXCEPT ![c] = "Ok"]
             /\ accepted' = accepted \cup
                    {[connection |-> c,
                      message |-> request[c].message,
                      subscribers |-> { s \in Conns :
                          Subscribed(s, request[c].message.chat_id) }]}
             /\ raced' = [d \in Conns |->
                    IF /\ d # c
                       /\ pc[d] = "insert"
                       /\ request[d].message.chat_id = request[c].message.chat_id
                       /\ request[d].message.nonce = request[c].message.nonce
                    THEN TRUE ELSE raced[d]]
             /\ ToStatus(c, TRUE)
        ELSE /\ insert_result' = [insert_result EXCEPT ![c] = "DbError"]
             /\ ToStatus(c, FALSE)
             /\ UNCHANGED << store, accepted, raced >>
    /\ UNCHANGED << ws, request, last_nonce, outbox, session_closed, received >>
    /\ UNCHANGED << current_nonce, codec >>

\* The route a "subscribe" takes: no message or a chat id that does not
\* decode ("reject"), a chat without a message queue ("processor": the
\* handler runs start_message_processor), a chat with one ("subscribed").
SubscribeRoute(manager, incoming) ==
    IF ~incoming.some THEN "reject"
    ELSE IF ~decode_base64(incoming.message.chat_id).ok THEN "reject"
    ELSE IF incoming.message.chat_id \in DOMAIN manager.message_queues
         THEN "subscribed"
    ELSE "processor"

\* "subscribe".  start_message_processor is awaited by subscribe_to_chat
\* and iterates over the channel whose sender stays in message_queues:
\* the handler stays in that loop ("processor").
RecvSubscribe(c) ==
    \E incoming \in SubscriptionEnvelopes("subscribe") :
        LET route == SubscribeRoute(ws[c], incoming)
            message == incoming.message
        IN
        /\ Take(c)
        /\ Work(c, incoming)
        /\ CASE route = "reject" ->
                    /\ ToStatus(c, FALSE)
                    /\ UNCHANGED ws
             [] route = "subscribed" ->
                    /\ ws' = [ws EXCEPT ![c] =
                                 subscribe_to_chat(ws[c], c, message.chat_id)]
                    /\ ToStatus(c, TRUE)
             [] route = "processor" ->
                    /\ ws' = [ws EXCEPT ![c] = start_message_processor(
                                 subscribe_to_chat(ws[c], c, message.chat_id),
                                 message.chat_id)]
                    /\ pc' = [pc EXCEPT ![c] = "processor"]
                    /\ UNCHANGED status_arg
        /\ UNCHANGED << store, last_nonce, insert_result, outbox, session_closed,
                        current_nonce, codec, raced, accepted >>

\* "unsubscribe"
RecvUnsubscribe(c) ==
    \E incoming \in SubscriptionEnvelopes("unsubscribe") :
        /\ Take(c)
        /\ Work(c, incoming)
        /\ IF ~incoming.some
           THEN /\ ToStatus(c, FALSE)
                /\ UNCHANGED ws
           ELSE LET done == unsubscribe_from_chat(ws[c], c, incoming.message.chat_id)
                IN
                /\ ws' = [ws EXCEPT ![c] = done.ws]
                /\ IF done.hung
                   THEN /\ pc' = [pc EXCEPT ![c] = "hung"]
                        /\ UNCHANGED status_arg
                   ELSE ToStatus(c, TRUE)
        /\ UNCHANGED << store, last_nonce, insert_result, outbox, session_closed,
                        current_nonce, codec, raced, accepted >>

\* Any other request type.
RecvUnknown(c) ==
    /\ Take(c)
    /\ Work(c, WithoutMessage("other"))
    /\ ToStatus(c, FALSE)
    /\ UNCHANGED << store, ws, last_nonce, insert_result, outbox, session_closed,
                    raced, accepted >>
    /\ UNCHANGED << current_nonce, codec >>

\* A status_response that writes the opposite status.
status_response_negated(out, closed, status) ==
    SessionText(out, closed, Status(~status))

\* status_response: the status frame is written to the session.
status_response(out, closed, status) == SessionText(out, closed, Status(status))

\* The handler sends the status and goes to its next suspension point.
StatusResponse(c) ==
    /\ pc[c] = "status"
    /\ outbox' = [outbox EXCEPT ![c] =
                     status_response(@, session_closed[c], status_arg[c])]
    /\ IF request[c].rtype = "subscribe" /\ status_arg[c]
       THEN /\ pc' = [pc EXCEPT ![c] = "unread"]
            /\ current_nonce' =
                  [current_nonce EXCEPT ![c] = request[c].message.nonce]
            /\ UNCHANGED request
       ELSE /\ pc' = [pc EXCEPT ![c] = "recv"]
            /\ EndIteration(c)
            /\ UNCHANGED current_nonce
    /\ last_nonce' = [last_nonce EXCEPT ![c] = 0]
    /\ insert_result' = [insert_result EXCEPT ![c] = "NotRun"]
    /\ status_arg' = [status_arg EXCEPT ![c] = FALSE]
    /\ raced' = [raced EXCEPT ![c] = FALSE]
    /\ UNCHANGED << store, ws, session_closed, received, accepted, codec >>

\* new_event_response for each message of a batch, in the batch's order.
RECURSIVE new_event_responses(_, _, _)
new_event_responses(out, closed, messages) ==
    IF messages = << >> THEN out
    ELSE new_event_responses(SessionText(out, closed, NewEvent(Head(messages))),
                             closed, Tail(messages))

\* wait_event_response
wait_event_response(out, closed, chat_id) ==
    SessionText(out, closed, WaitEvent(chat_id))

\* unread_message_response, one turn of its loop: a batch is fetched from
\* current_nonce and sent.  The loop ends when the fetch fails, when the
\* batch is short, or when current_nonce + MESSAGES_LIMIT overflows (then
\* Status(false) is sent); the handler goes on to wait_event_response.
UnreadBatch(c) ==
    /\ pc[c] = "unread"
    /\ \E db_ok \in BOOLEAN :
        LET messages == fetch_history(store, ChatBytes(request[c].message),
                                      current_nonce[c], MESSAGES_LIMIT)
            sent == new_event_responses(outbox[c], session_closed[c], messages)
            next == checked_add(current_nonce[c], MESSAGES_LIMIT)
        IN  IF ~db_ok
            THEN /\ pc' = [pc EXCEPT ![c] = "wait"]
                 /\ current_nonce' = [current_nonce EXCEPT ![c] = 0]
                 /\ UNCHANGED outbox
            ELSE IF Len(messages) < MESSAGES_LIMIT
            THEN /\ outbox' = [outbox EXCEPT ![c] = sent]
                 /\ pc' = [pc EXCEPT ![c] = "wait"]
                 /\ current_nonce' = [current_nonce EXCEPT ![c] = 0]
            ELSE IF ~next.some
            THEN /\ outbox' = [outbox EXCEPT ![c] =
                                  status_response(sent, session_closed[c], FALSE)]
                 /\ pc' = [pc EXCEPT ![c] = "wait"]
                 /\ current_nonce' = [current_nonce EXCEPT ![c] = 0]
            ELSE /\ outbox' = [outbox EXCEPT ![c] = sent]
                 /\ current_nonce' = [current_nonce EXCEPT ![c] = next.value]
                 /\ UNCHANGED pc
    /\ UNCHANGED << store, ws, request, last_nonce, insert_result, status_arg,
                    session_closed, received, raced, accepted, codec >>

\* The handler sends event/wait for the chat and ends the iteration.
WaitEventResponse(c) ==
    /\ pc[c] = "wait"
    /\ outbox' = [outbox EXCEPT ![c] =
                     wait_event_response(@, session_closed[c],
                                         request[c].message.chat_id)]
    /\ pc' = [pc EXCEPT ![c] = "recv"]
    /\ EndIteration(c)
    /\ UNCHANGED << store, ws, last_nonce, insert_result, status_arg,
                    session_closed, received, current_nonce, codec, raced, accepted >>

\* msg.stream.recv() fails: the loop ends and disconnect runs.
StreamClosed(c) ==
    /\ pc[c] = "recv"
    /\ pc' = [pc EXCEPT ![c] = "cleanup"]
    /\ UNCHANGED << store, ws, request, last_nonce, insert_result, status_arg,
                    outbox, session_closed, received, raced, accepted >>
    /\ UNCHANGED << current_nonce, codec >>

\* disconnect, its first await: the session is closed.
DisconnectClose(c) ==
    /\ pc[c] = "cleanup"
    /\ session_closed' = [session_closed EXCEPT ![c] = TRUE]
    /\ pc' = [pc EXCEPT ![c] = "detach"]
    /\ UNCHANGED << store, ws, request, last_nonce, insert_result, status_arg,
                    outbox, received, current_nonce, codec, raced, accepted >>

\* disconnect, after the session was closed: the registry is cleaned.
DisconnectDetach(c) ==
    /\ pc[c] = "detach"
    /\ LET done == disconnect(ws[c], c) IN
        /\ ws' = [ws EXCEPT ![c] = done.ws]
        /\ pc' = [pc EXCEPT ![c] = IF done.hung THEN "hung" ELSE "done"]
    /\ UNCHANGED << store, request, last_nonce, insert_result, status_arg,
                    outbox, session_closed, received, current_nonce, codec, raced,
                    accepted >>

\* disconnect: the session is closed, then the registry is cleaned.
Disconnect(c) == DisconnectClose(c) \/ DisconnectDetach(c)

\* The loop of start_message_processor takes an event from the channel and
\* inserts its message.  No handler but c holds c's manager and c is in
\* this loop, so nothing is ever sent into the channel (ChannelsEmpty) and
\* the step is never enabled; it is no disjunct of Next.
ProcessorStep(c) ==
    /\ pc[c] = "processor"
    /\ \E chat_id \in DOMAIN ws[c].message_queues :
        /\ ws[c].message_queues[chat_id] # << >>
        /\ ws' = [ws EXCEPT ![c].message_queues[chat_id] = Tail(@)]
    /\ UNCHANGED << store, pc, request, last_nonce, insert_result, status_arg,
                    outbox, session_closed, received, raced, accepted >>
    /\ UNCHANGED << current_nonce, codec >>

\* The steps a handler takes by itself, once the awaited operation is done.
HandlerStep(c) ==
    InsertQuery(c) \/ InsertExecute(c) \/ StatusResponse(c) \/ Disconnect(c)

Next ==
    \E c \in Conns :
        \/ RecvMalformed(c)
        \/ RecvPing(c)
        \/ RecvSend(c)
        \/ RecvSubscribe(c)
        \/ RecvUnsubscribe(c)
        \/ RecvUnknown(c)
        \/ StreamClosed(c)
        \/ InsertQuery(c)
        \/ InsertExecute(c)
        \/ StatusResponse(c)
        \/ Disconnect(c)

Spec == Init /\ [][Next]_vars

\* Every handler that can take a step by itself eventually takes it: each
\* handler is taken to be a task scheduled on its own (a handler blocked in
\* stream.recv() or in the processor loop holds up no other handler) and
\* the operations it awaits complete.
FairSpec == Spec /\ \A c \in Conns : WF_vars(HandlerStep(c))

\* The starting nonces a Subscribe asks for: small ones, the first one
\* that is negative as an i64, and usize::MAX.
FromNonces == {0, 1, 2, Pow2(WordBits - 1), UsizeMax}

\* The code of "subscribe" that follows handle_subscribe (status_response,
\* unread_message_response, wait_event_response), entered for every table,
\* chat and starting nonce: the handler of s is where handle_subscribe has
\* returned, its manager as subscribe_to_chat and start_message_processor
\* leave it, and the server takes one more frame.
ReplayInit ==
    \E s \in Conns : \E q \in QueueStrs : \E n \in FromNonces :
        /\ store \in BacklogTables
        /\ ws = [c \in Conns |->
                    IF c = s
                    THEN start_message_processor(
                             subscribe_to_chat(ManagerDefault, s, q), q)
                    ELSE ManagerDefault]
        /\ pc = [c \in Conns |-> IF c = s THEN "status" ELSE "recv"]
        /\ request = [c \in Conns |->
                         IF c = s
                         THEN WithMessage("subscribe",
                                          Message(n, q, StrSig, StrContent, StrIV))
                         ELSE NoRequest]
        /\ last_nonce = [c \in Conns |-> 0]
        /\ insert_result = [c \in Conns |-> "NotRun"]
        /\ status_arg = [c \in Conns |-> c = s]
        /\ outbox = [c \in Conns |-> << >>]
        /\ session_closed = [c \in Conns |-> FALSE]
        /\ received = MaxFrames - 1
        /\ current_nonce = [c \in Conns |-> 0]
        /\ raced = [c \in Conns |-> FALSE]
        /\ accepted = {}
        /\ codec = CodecIdle

ReplayNext ==
    \/ Next
    \/ \E c \in Conns : UnreadBatch(c) \/ WaitEventResponse(c)

ReplaySpec == ReplayInit /\ [][ReplayNext]_vars

\* decode_base64 and encode_base64 by themselves: a text is decoded and,
\* when it was accepted, encoded again; a byte string is encoded and
\* decoded again.  No handler runs.
CodecInit ==
    /\ codec \in { Codec("text", t) : t \in CodecTexts }
                    \cup { Codec("bytes", b) : b \in CodecBytes }
    /\ store = << >>
    /\ ws = [c \in Conns |-> ManagerDefault]
    /\ pc = [c \in Conns |-> "idle"]
    /\ request = [c \in Conns |-> NoRequest]
    /\ last_nonce = [c \in Conns |-> 0]
    /\ insert_result = [c \in Conns |-> "NotRun"]
    /\ status_arg = [c \in Conns |-> FALSE]
    /\ outbox = [c \in Conns |-> << >>]
    /\ session_closed = [c \in Conns |-> FALSE]
    /\ received = 0
    /\ current_nonce = [c \in Conns |-> 0]
    /\ raced = [c \in Conns |-> FALSE]
    /\ accepted = {}

\* decode_base64(text)
CodecDecode ==
    /\ \/ codec.origin = "text" /\ codec.stage = 0
       \/ codec.origin = "bytes" /\ codec.stage = 1
    /\ LET decoded == decode_base64(codec.text) IN
        codec' = [codec EXCEPT !.stage = @ + 1,
                               !.ok = decoded.ok,
                               !.bytes = decoded.bytes]
    /\ UNCHANGED << store, ws, pc, request, last_nonce, insert_result,
                    status_arg, outbox, session_closed, received,
                    current_nonce, raced, accepted >>

\* encode_base64(bytes)
CodecEncode ==
    /\ \/ codec.origin = "bytes" /\ codec.stage = 0
       \/ codec.origin = "text" /\ codec.stage = 1 /\ codec.ok
    /\ codec' = [codec EXCEPT !.stage = @ + 1,
                              !.text = encode_base64(codec.bytes)]
    /\ UNCHANGED << store, ws, pc, request, last_nonce, insert_result,
                    status_arg, outbox, session_closed, received,
                    current_nonce, raced, accepted >>

CodecNext == CodecDecode \/ CodecEncode

CodecSpec == CodecInit /\ [][CodecNext]_vars

\* The messages of the envelopes and frames converted by themselves: the
\* smallest and the largest nonce, fields that are base64 and fields that
\* are not.
WireMessages ==
    { Message(n, q, "cw==", c, "aQ==") :
        n \in {0, 1, UsizeMax}, q \in {"YQ==", "!!!"}, c \in {"eA==", "plain text"} }

\* How an envelope is written: its tag, whether it has its "type" and its
\* "message" member, the names of the members for chat_id and content_iv,
\* the form of the nonce and the order of the members.
WireForms ==
    [tag : {"ping", "send", "subscribe", "unsubscribe", "other"},
     shape : {"full", "bare", "untagged"},
     names : { << "queueId", "contentIV" >>, << "chat_id", "contentIV" >>,
               << "queueId", "contentIv" >> },
     nonce : {"number", "string", "negative"},
     reversed : BOOLEAN]

Reverse(seq) == [i \in 1..Len(seq) |-> seq[Len(seq) + 1 - i]]

InOrder(seq, reversed) == IF reversed THEN Reverse(seq) ELSE seq

\* The envelope a client writes for the message in the form.
EnvelopeJson(message, form) ==
    LET nonce == CASE form.nonce = "number" -> JNum(message.nonce)
                   [] form.nonce = "string" -> JStr("1")
                   [] form.nonce = "negative" -> JNum(0 - 1)
        inner == JObj(InOrder(<< Member("nonce", nonce),
                                 Member(form.names[1], JStr(message.chat_id)),
                                 Member("signature", JStr(message.signature)),
                                 Member("content", JStr(message.content)),
                                 Member(form.names[2], JStr(message.content_iv)) >>,
                              form.reversed))
        type == Member("type", JStr(form.tag))
    IN  CASE form.shape = "full" ->
                JObj(InOrder(<< type, Member("message", inner) >>, form.reversed))
          [] form.shape = "bare" -> JObj(<< type >>)
          [] form.shape = "untagged" -> JObj(<< Member("message", inner) >>)

\* The responses the server writes.
WireFrames ==
    { Status(b) : b \in BOOLEAN } \cup { WaitEvent(q) : q \in {"YQ==", "Yg=="} }
        \cup { NewEvent(m) : m \in WireMessages }

\* A conversion between JSON and the entities: an envelope to deserialize
\* (the message and form it was written from, and its JSON) or a response
\* to serialize, and what the conversion returned.
Wire(origin, message, form, json, frame) ==
    [origin |-> origin, stage |-> 0, message |-> message, form |-> form,
     json |-> json, frame |-> frame, ok |-> FALSE, income |-> NoRequest]

\* serde_json::from_str::<IncomeMessage> and serde_json::to_string of a
\* SeedResponse by themselves.  No handler runs.
WireInit ==
    /\ codec \in
          { Wire("json", m, f, EnvelopeJson(m, f), Status(FALSE)) :
                m \in WireMessages, f \in WireForms }
          \cup { Wire("response", MessageDefault,
                      [tag |-> "none", shape |-> "none",
                       names |-> << "queueId", "contentIV" >>,
                       nonce |-> "number", reversed |-> FALSE],
                      JObj(<< >>), r) : r \in WireFrames }
    /\ store = << >>
    /\ ws = [c \in Conns |-> ManagerDefault]
    /\ pc = [c \in Conns |-> "idle"]
    /\ request = [c \in Conns |-> NoRequest]
    /\ last_nonce = [c \in Conns |-> 0]
    /\ insert_result = [c \in Conns |-> "NotRun"]
    /\ status_arg = [c \in Conns |-> FALSE]
    /\ outbox = [c \in Conns |-> << >>]
    /\ session_closed = [c \in Conns |-> FALSE]
    /\ received = 0
    /\ current_nonce = [c \in Conns |-> 0]
    /\ raced = [c \in Conns |-> FALSE]
    /\ accepted = {}

\* serde_json::from_str(&text) into an IncomeMessage
WireDeserialize ==
    /\ codec.origin = "json"
    /\ codec.stage = 0
    /\ LET parsed == deserialize_income(codec.json) IN
        codec' = [codec EXCEPT !.stage = 1,
                               !.ok = parsed.ok,
                               !.income = parsed.income]
    /\ UNCHANGED << store, ws, pc, request, last_nonce, insert_result,
                    status_arg, outbox, session_closed, received,
                    current_nonce, raced, accepted >>

\* serde_json::to_string(&outgoing)
WireSerialize ==
    /\ codec.origin = "response"
    /\ codec.stage = 0
    /\ codec' = [codec EXCEPT !.stage = 1,
                              !.ok = TRUE,
                              !.json = to_string(codec.frame)]
    /\ UNCHANGED << store, ws, pc, request, last_nonce, insert_result,
                    status_arg, outbox, session_closed, received,
                    current_nonce, raced, accepted >>

WireNext == WireDeserialize \/ WireSerialize

WireSpec == WireInit /\ [][WireNext]_vars

\* ---- The session mutex ----

\* A call of one of the senders on a connection: the frame it is to write
\* and the calls that were awaited before it was made.
SenderCall(frame, after) == [frame |-> frame, after |-> after]

\* The calls made on one connection by a Subscribe whose first batch holds k
\* rows (status_response, then the join_all of k new_event_response
\* futures, then wait_event_response) and, when peer holds, by one
\* new_event_response of broadcast_event running in another task.
SenderCalls(k, peer) ==
    LET rows == SeedRows(decode_base64(StrQueueA).bytes, k + 1)
        replay == [i \in 1..k |-> SenderCall(NewEvent(OutcomeOfRow(rows[i])), {1})]
        handler == << SenderCall(Status(TRUE), {}) >> \o replay
                     \o << SenderCall(WaitEvent("YQ=="), 1..(k + 1)) >>
    IN  IF peer
        THEN handler \o << SenderCall(NewEvent(OutcomeOfRow(rows[k + 1])), {}) >>
        ELSE handler

\* connection.session.lock().await returns the guard to caller i only when
\* no other caller holds it.
session_lock_shared(holder, i) == TRUE

session_lock(holder, i) == holder = 0

Senders(connection, calls) ==
    [origin |-> "session", connection |-> connection, calls |-> calls,
     at |-> [i \in 1..Len(calls) |-> "call"], holder |-> 0]

\* The senders of one connection by themselves: no request is read and the
\* registry is not used.
SessionInit ==
    /\ codec \in { Senders(c, SenderCalls(k, peer)) :
                      c \in Conns, k \in 0..MESSAGES_LIMIT, peer \in BOOLEAN }
    /\ session_closed \in [Conns -> BOOLEAN]
    /\ store = << >>
    /\ ws = [c \in Conns |-> ManagerDefault]
    /\ pc = [c \in Conns |-> "idle"]
    /\ request = [c \in Conns |-> NoRequest]
    /\ last_nonce = [c \in Conns |-> 0]
    /\ insert_result = [c \in Conns |-> "NotRun"]
    /\ status_arg = [c \in Conns |-> FALSE]
    /\ outbox = [c \in Conns |-> << >>]
    /\ received = 0
    /\ current_nonce = [c \in Conns |-> 0]
    /\ raced = [c \in Conns |-> FALSE]
    /\ accepted = {}

\* A call has been made and is waiting for the session.
Callable(i) ==
    /\ codec.at[i] = "call"
    /\ \A j \in codec.calls[i].after : codec.at[j] = "returned"

\* let mut session = connection.session.lock().await; session.text(..) starts
SessionLock ==
    /\ codec.origin = "session"
    /\ \E i \in 1..Len(codec.calls) :
        /\ Callable(i)
        /\ session_lock(codec.holder, i)
        /\ codec' = [codec EXCEPT !.at[i] = "text", !.holder = i]
    /\ UNCHANGED << store, ws, pc, request, last_nonce, insert_result,
                    status_arg, outbox, session_closed, received,
                    current_nonce, raced, accepted >>

\* session.text(..).await completes (the frame is written unless the
\* session is closed), the sender returns and its guard is dropped.
SessionWrite ==
    /\ codec.origin = "session"
    /\ \E i \in 1..Len(codec.calls) :
        /\ codec.at[i] = "text"
        /\ outbox' = [outbox EXCEPT ![codec.connection] =
                         SessionText(@, session_closed[codec.connection],
                                     codec.calls[i].frame)]
        /\ codec' = [codec EXCEPT !.at[i] = "returned",
                                  !.holder = IF @ = i THEN 0 ELSE @]
    /\ UNCHANGED << store, ws, pc, request, last_nonce, insert_result,
                    status_arg, session_closed, received,
                    current_nonce, raced, accepted >>

SessionNext == SessionLock \/ SessionWrite

SessionSpec == SessionInit /\ [][SessionNext]_vars

\* ---- broadcast_event ----

\* impl From<IncomeMessage> for OutcomeMessage: the fields of the carried
\* message, or of Message::default() when the envelope carries none.
OutcomeFromIncome(income) ==
    IF income.some
    THEN Message(income.message.nonce, income.message.chat_id,
                 income.message.signature, income.message.content,
                 income.message.content_iv)
    ELSE MessageDefault

\* A try_join_all in place of join_all: nothing more is polled once a
\* future has failed.
join_all_until_error(tasks, failed) == IF failed = {} THEN tasks ELSE {}

\* futures::future::join_all(tasks): every task is driven to completion,
\* whatever the others returned.
join_all(tasks, failed) == tasks

\* A call of broadcast_event: its arguments, and the new_event_response
\* tasks still to complete and those that returned an error.
Broadcast(manager, income) ==
    [origin |-> "broadcast", ws |-> manager, income |-> income,
     stage |-> "called", tasks |-> {}, failed |-> {}]

\* Registries broadcast_event can be given: no chat, or chat "a" with any
\* set of subscribers.
BroadcastManagers ==
    { ManagerDefault }
        \cup { [ManagerDefault EXCEPT !.chats = MapPut(EmptyMap, StrQueueA, S)] :
                 S \in SUBSET Conns }

\* broadcast_event by itself, on sessions that are open or closed.
BroadcastInit ==
    /\ codec \in { Broadcast(manager, income) :
                      manager \in BroadcastManagers,
                      income \in { WithMessage("send", m) : m \in GoodMessages }
                                    \cup { WithoutMessage("ping") } }
    /\ session_closed \in [Conns -> BOOLEAN]
    /\ store = << >>
    /\ ws = [c \in Conns |-> ManagerDefault]
    /\ pc = [c \in Conns |-> "idle"]
    /\ request = [c \in Conns |-> NoRequest]
    /\ last_nonce = [c \in Conns |-> 0]
    /\ insert_result = [c \in Conns |-> "NotRun"]
    /\ status_arg = [c \in Conns |-> FALSE]
    /\ outbox = [c \in Conns |-> << >>]
    /\ received = 0
    /\ current_nonce = [c \in Conns |-> 0]
    /\ raced = [c \in Conns |-> FALSE]
    /\ accepted = {}

\* The subscriber set is looked up: without the chat the call returns, with
\* it one new_event_response task is made per subscriber.
BroadcastLookup ==
    /\ codec.origin = "broadcast"
    /\ codec.stage = "called"
    /\ LET chat_id == OutcomeFromIncome(codec.income).chat_id IN
        IF chat_id \in DOMAIN codec.ws.chats
        THEN codec' = [codec EXCEPT !.stage = "joining",
                                    !.tasks = codec.ws.chats[chat_id]]
        ELSE codec' = [codec EXCEPT !.stage = "returned"]
    /\ UNCHANGED << store, ws, pc, request, last_nonce, insert_result,
                    status_arg, outbox, session_closed, received,
                    current_nonce, raced, accepted >>

\* One new_event_response task completes: the frame is written, or the
\* task returns an error because the session is closed.
BroadcastSend ==
    /\ codec.origin = "broadcast"
    /\ codec.stage = "joining"
    /\ \E conn \in join_all(codec.tasks, codec.failed) :
        /\ outbox' = [outbox EXCEPT ![conn] =
                         SessionText(@, session_closed[conn],
                                     NewEvent(OutcomeFromIncome(codec.income)))]
        /\ codec' = [codec EXCEPT !.tasks = @ \ {conn},
                                  !.failed = IF session_closed[conn]
                                             THEN @ \cup {conn} ELSE @]
    /\ UNCHANGED << store, ws, pc, request, last_nonce, insert_result,
                    status_arg, session_closed, received,
                    current_nonce, raced, accepted >>

\* join_all returns; the errors are logged and broadcast_event returns.
BroadcastJoined ==
    /\ codec.origin = "broadcast"
    /\ codec.stage = "joining"
    /\ join_all(codec.tasks, codec.failed) = {}
    /\ codec' = [codec EXCEPT !.stage = "returned"]
    /\ UNCHANGED << store, ws, pc, request, last_nonce, insert_result,
                    status_arg, outbox, session_closed, received,
                    current_nonce, raced, accepted >>

BroadcastNext == BroadcastLookup \/ BroadcastSend \/ BroadcastJoined

BroadcastSpec == BroadcastInit /\ [][BroadcastNext]_vars

\* ---- disconnect, run again ----

\* Session::close on a session that is open or already closed: the session
\* is closed afterwards, and closing a closed session is an error.
close(closed) == [closed |-> TRUE, error |-> closed]

\* The error of close returned to the caller of disconnect.
close_error_returned(result) == result.error

\* let _ = ..close(None).await: the result of close is dropped.
close_error_ignored(result) == FALSE

\* The maps from some of the keys K to values in V
Maps(K, V) == UNION { [D -> V] : D \in SUBSET K }

\* A connection's cleanup: the registry disconnect was first given, the
\* registry now, the number of runs that returned, the registry the first
\* run left, and whether a run blocked or raised an error.
Cleanup(manager, connection) ==
    [origin |-> "cleanup", connection |-> connection, input |-> manager,
     ws |-> manager, runs |-> 0, first |-> manager, hung |-> FALSE,
     error |-> FALSE]

\* disconnect by itself, on any registry over the connections and queues
\* and on a session that is open or closed.
CleanupInit ==
    /\ codec \in { Cleanup([ManagerDefault EXCEPT !.connections = cs,
                                                    !.chats = qs], c) :
                      cs \in Maps(Conns, SUBSET QueueStrs),
                      qs \in Maps(QueueStrs, SUBSET Conns),
                      c \in Conns }
    /\ session_closed \in [Conns -> BOOLEAN]
    /\ store = << >>
    /\ ws = [c \in Conns |-> ManagerDefault]
    /\ pc = [c \in Conns |-> "idle"]
    /\ request = [c \in Conns |-> NoRequest]
    /\ last_nonce = [c \in Conns |-> 0]
    /\ insert_result = [c \in Conns |-> "NotRun"]
    /\ status_arg = [c \in Conns |-> FALSE]
    /\ outbox = [c \in Conns |-> << >>]
    /\ received = 0
    /\ current_nonce = [c \in Conns |-> 0]
    /\ raced = [c \in Conns |-> FALSE]
    /\ accepted = {}

\* disconnect(ws, connection), the first or the second time: the session
\* is closed, then the registry is cleaned.
CleanupRun ==
    /\ codec.origin = "cleanup"
    /\ codec.runs < 2
    /\ ~codec.hung
    /\ ~codec.error
    /\ LET closing == close(session_closed[codec.connection])
           done == disconnect(codec.ws, codec.connection)
       IN  /\ session_closed' = [session_closed EXCEPT
                                    ![codec.connection] = closing.closed]
           /\ IF close_error_ignored(closing)
              THEN codec' = [codec EXCEPT !.error = TRUE]
              ELSE IF done.hung
              THEN codec' = [codec EXCEPT !.hung = TRUE]
              ELSE codec' = [codec EXCEPT !.ws = done.ws,
                                          !.runs = @ + 1,
                                          !.first = IF codec.runs = 0
                                                    THEN done.ws ELSE @]
    /\ UNCHANGED << store, ws, pc, request, last_nonce, insert_result,
                    status_arg, outbox, received,
                    current_nonce, raced, accepted >>

CleanupNext == CleanupRun

CleanupSpec == CleanupInit /\ [][CleanupNext]_vars

ChannelsEmpty ==
    \A c \in Conns : \A q \in DOMAIN ws[c].message_queues :
        ws[c].message_queues[q] = << >>

(***************************************************************************)
(* Properties.                                                             *)
(***************************************************************************)
QueueBytes == { decode_base64(q).bytes : q \in QueueStrs }

\* H(qid): the largest nonce stored for the queue, 0 if none.
HighWater(table, chat_id) ==
    IF RowsOf(table, chat_id) = {} THEN 0
    ELSE SetMax({ table[i].nonce : i \in RowsOf(table, chat_id) })

\* The row that stores a message: its own nonce and its decoded fields.
StoredMessage(message) == InsertedRow(message, message.nonce)

IsStored(message) == \E i \in 1..Len(store) : store[i] = StoredMessage(message)

LastFrame(c) == outbox[c][Len(outbox[c])]

\* The handler of c is at a "send" whose message got as far as insert_message.
SendInHand(c) == request[c].rtype = "send" /\ request[c].some

\* C1: for every queue the stored nonces are exactly 1..H(qid), each once.
C1_NoncesContiguous ==
    \A q \in QueueBytes :
        /\ { store[i].nonce : i \in RowsOf(store, q) } = 1..HighWater(store, q)
        /\ Cardinality(RowsOf(store, q)) = HighWater(store, q)

\* C2: when insert_message returned Ok for a message, the table holds a row
\* with the message's own nonce, and the queue's high-water mark has
\* reached that nonce.
C2_RowCarriesMessageNonce ==
    \A c \in Conns :
        insert_result[c] = "Ok" =>
            /\ IsStored(request[c].message)
            /\ HighWater(store, ChatBytes(request[c].message)) >= request[c].message.nonce

\* insert_message found no row of the chat when it asked for the last nonce.
EmptyAtQuery(c) ==
    \/ insert_result[c] = "NotFound"
    \/ insert_result[c] = "Ok" /\ last_nonce[c] = 0

\* C3: a Send with nonce 1 on a queue without rows (and without a queue
\* entry) is answered with Status(true), leaves exactly one row of that
\* queue, with nonce 1, and creates no message processor.
C3_FirstSendAccepted ==
    \A c \in Conns :
        (/\ pc[c] = "status"
         /\ SendInHand(c)
         /\ request[c].message.nonce = 1
         /\ EmptyAtQuery(c))
        => /\ status_arg[c]
           /\ \E i \in 1..Len(store) :
                 /\ RowsOf(store, ChatBytes(request[c].message)) = {i}
                 /\ store[i].nonce = 1
           /\ ~Subscribed(c, request[c].message.chat_id)

\* insert_message refused the message of c for its nonce.
NonceGap(c) ==
    \/ insert_result[c] = "InvalidNonce"
    \/ insert_result[c] = "NotFound" /\ request[c].message.nonce # 1

\* C4: a Send whose nonce is not H(qid)+1 is answered with Status(false),
\* leaves the table as it was, and its connection is closed afterwards (the
\* handler does not go back to receiving).
C4_NonceGapClosesConnection ==
    [][\A c \in Conns :
          (pc[c] = "status" /\ SendInHand(c) /\ NonceGap(c) /\ pc'[c] # "status")
          => /\ outbox'[c] = Append(outbox[c], Status(FALSE))
             /\ store' = store
             /\ pc'[c] \in {"cleanup", "done"}]_vars

\* C5: of two insert_message calls for the same queue and nonce that run
\* at the same time, at most one returns Ok.
C5_AppendsSerializable ==
    \A c \in Conns : ~(insert_result[c] = "Ok" /\ raced[c])

\* C6: when Status(true) is about to be sent for a Send, the message of
\* that Send is in the table.
C6_StoredBeforeStatusTrue ==
    \A c \in Conns :
        (pc[c] = "status" /\ status_arg[c] /\ SendInHand(c))
        => IsStored(request[c].message)

C9_SubscribeAddsBothSides ==
    \A c \in Conns : \A q \in QueueStrs :
        Subscribed(c, q) =>
            /\ c \in DOMAIN ws[c].connections /\ q \in ws[c].connections[c]
            /\ q \in DOMAIN ws[c].chats /\ c \in ws[c].chats[q]

\* C10: a message accepted on a queue while b is subscribed to it is
\* eventually written to b as an event/new frame.
C10_LiveFanOut ==
    \A b \in Conns : \A m \in GoodMessages :
        (\E a \in accepted : a.message = m /\ b \in a.subscribers)
        ~> (\E i \in 1..Len(outbox[b]) : outbox[b][i] = NewEvent(m))

IsNewEvent(frame) == frame.type = "event" /\ frame.rtype = "new"

IsWaitEvent(frame) == frame.type = "event" /\ frame.rtype = "wait"

\* Frames i < j of c were written for one Subscribe: no Status(true), with
\* which the answer to a request starts, lies between them.
SameSubscribe(c, i, j) ==
    \A k \in (i + 1)..(j - 1) : outbox[c][k] # Status(TRUE)

\* C11: of two event/new frames of one queue written to one connection for
\* one Subscribe, the earlier one does not carry the larger nonce.
C11_EventsInNonceOrder ==
    \A c \in Conns : \A i \in 1..Len(outbox[c]) : \A j \in 1..Len(outbox[c]) :
        (/\ i < j
         /\ IsNewEvent(outbox[c][i])
         /\ IsNewEvent(outbox[c][j])
         /\ outbox[c][i].message.chat_id = outbox[c][j].message.chat_id
         /\ SameSubscribe(c, i, j))
        => outbox[c][i].message.nonce <= outbox[c][j].message.nonce

\* The handler of c works on a Subscribe whose chat id decodes.
SubscribeInHand(c) ==
    /\ request[c].rtype = "subscribe"
    /\ request[c].some
    /\ decode_base64(request[c].message.chat_id).ok

\* c was sent the event/wait of the chat after every event/new of the
\* chat, and a Status(true) before all of these or after the event/wait.
SubscribeObserved(c, chat_id) ==
    \E s \in 1..Len(outbox[c]) : \E w \in 1..Len(outbox[c]) :
        /\ outbox[c][s] = Status(TRUE)
        /\ outbox[c][w] = WaitEvent(chat_id)
        /\ \A k \in 1..Len(outbox[c]) :
              (IsNewEvent(outbox[c][k]) /\ outbox[c][k].message.chat_id = chat_id)
              => k < w
        /\ \/ w < s
           \/ \A k \in 1..Len(outbox[c]) :
                 (IsNewEvent(outbox[c][k]) /\ outbox[c][k].message.chat_id = chat_id)
                 => s < k

\* C12: a Subscribe leads to the client having the backlog frames of the
\* queue before its event/wait, with the Status(true) before the backlog or
\* after the event/wait.
C12_BacklogBeforeWait ==
    \A c \in Conns : \A q \in QueueStrs :
        (SubscribeInHand(c) /\ request[c].message.chat_id = q)
        ~> SubscribeObserved(c, q)

\* C13: a Subscribe runs to completion: its event/wait and its
\* Status(true) are sent and the handler is back at receiving frames.
C13_SubscribeCompletes ==
    \A c \in Conns : \A q \in QueueStrs :
        (SubscribeInHand(c) /\ request[c].message.chat_id = q)
        ~> (/\ pc[c] = "recv"
            /\ \E w \in 1..Len(outbox[c]) : outbox[c][w] = WaitEvent(q)
            /\ \E s \in 1..Len(outbox[c]) : outbox[c][s] = Status(TRUE))

\* c was sent an event/new of the chat with the nonce.
EventSent(c, chat_id, nonce) ==
    \E k \in 1..Len(outbox[c]) :
        /\ IsNewEvent(outbox[c][k])
        /\ outbox[c][k].message.chat_id = chat_id
        /\ outbox[c][k].message.nonce = nonce

\* C14: when the event/wait of a Subscribe is sent, every row of the queue
\* with a nonce from the requested one on has been sent as event/new.
C14_WaitAfterWholeBacklog ==
    [][\A c \in Conns :
          (pc[c] = "wait" /\ pc'[c] = "recv")
          => \A i \in RowsOf(store, ChatBytes(request[c].message)) :
                store[i].nonce >= request[c].message.nonce
                => EventSent(c, request[c].message.chat_id, store[i].nonce)]_vars

\* C15: a message accepted on a queue while the Subscribe of b for that
\* queue is being handled is written to b as event/new exactly once.
C15_AcceptedDuringReplayDelivered ==
    \A b \in Conns : \A m \in GoodMessages :
        (/\ SubscribeInHand(b)
         /\ request[b].message.chat_id = m.chat_id
         /\ \E a \in accepted : a.message = m /\ b \in a.subscribers)
        ~> (Cardinality({ k \in 1..Len(outbox[b]) : outbox[b][k] = NewEvent(m) }) = 1)

\* chat q is in the subscription set of c.
InConnections(manager, c, q) ==
    c \in DOMAIN manager.connections /\ q \in manager.connections[c]

\* c is in the subscriber set of chat q.
InChats(manager, c, q) ==
    q \in DOMAIN manager.chats /\ c \in manager.chats[q]

FieldsDecode(message) ==
    /\ decode_base64(message.chat_id).ok
    /\ decode_base64(message.signature).ok
    /\ decode_base64(message.content).ok
    /\ decode_base64(message.content_iv).ok

\* C18: a Send with a field that is not base64 is answered with
\* Status(false), nothing is stored or enqueued for it, and its connection
\* is closed afterwards (the handler does not go back to receiving).
C18_BadBase64ClosesConnection ==
    [][\A c \in Conns :
          (/\ pc[c] = "status"
           /\ SendInHand(c)
           /\ ~FieldsDecode(request[c].message)
           /\ pc'[c] # "status")
          => /\ outbox'[c] = Append(outbox[c], Status(FALSE))
             /\ store' = store
             /\ ws' = ws
             /\ pc'[c] \in {"cleanup", "done"}]_vars

\* C19: is_valid_message holds of a Send's message exactly when its four
\* fields are base64 and its nonce is at least 1.
C19_ValidIffDecodesAndNonce ==
    \A c \in Conns :
        SendInHand(c) =>
            (is_valid_message(request[c].message)
             <=> (FieldsDecode(request[c].message) /\ request[c].message.nonce >= 1))

\* The rows of queue q in the table with a nonce of at least n.
RowsFrom(table, q, n) ==
    { i \in RowsOf(table, decode_base64(q).bytes) : table[i].nonce >= n }

\* got is what history(q, n, limit) is to return from the table: messages
\* of q with nonces of at least n, ascending, as many as there are rows
\* up to limit, each row at most once and none skipped.
HistoryExact(table, q, n, limit, got) ==
    LET rows == RowsFrom(table, q, n)
        InRows(v) == Cardinality({ i \in rows : table[i].nonce = v })
        InGot(v) == Cardinality({ k \in 1..Len(got) : got[k].nonce = v })
    IN  /\ Len(got) = IF Cardinality(rows) < limit THEN Cardinality(rows) ELSE limit
        /\ \A k \in 1..Len(got) : got[k].chat_id = q /\ got[k].nonce >= n
        /\ \A k \in 1..(Len(got) - 1) : got[k].nonce <= got[k + 1].nonce
        /\ \A k \in 1..Len(got) : InGot(got[k].nonce) <= InRows(got[k].nonce)
        /\ \A i \in rows :
              (Len(got) > 0 /\ table[i].nonce < got[Len(got)].nonce)
              => InGot(table[i].nonce) = InRows(table[i].nonce)

\* C20: fetch_history returns the stored messages of the queue from the
\* starting nonce on, ascending, cut to the limit, for every queue and
\* starting nonce.
C20_HistoryExact ==
    \A q \in QueueStrs : \A n \in FromNonces :
        HistoryExact(store, q, n, MESSAGES_LIMIT,
                     fetch_history(store, decode_base64(q).bytes, n, MESSAGES_LIMIT))

\* The frame is the event/new of a row of the table: the row's queue and
\* nonce, and the row's signature, content and content_iv in base64.
CarriesStoredFields(table, frame) ==
    \E i \in 1..Len(table) :
        /\ encode_base64(table[i].chat_id) = frame.message.chat_id
        /\ table[i].nonce = frame.message.nonce
        /\ frame.message.signature = encode_base64(table[i].signature)
        /\ frame.message.content = encode_base64(table[i].content)
        /\ frame.message.content_iv = encode_base64(table[i].content_iv)

\* C21: every event/new frame of a backlog carries the signature, the
\* content and the content_iv stored for its message.
C21_BacklogCarriesStoredFields ==
    \A c \in Conns : \A k \in 1..Len(outbox[c]) :
        IsNewEvent(outbox[c][k]) => CarriesStoredFields(store, outbox[c][k])

\* The subscriber set of chat q in the manager (empty without an entry).
SubscribersOf(manager, q) == IF q \in DOMAIN manager.chats THEN manager.chats[q] ELSE {}

\* C22: in every manager, message_queues has an entry for chat q exactly
\* when q has a subscriber or events are waiting in q's channel.
C22_WorkerIffSubscribers ==
    \A h \in Conns : \A q \in QueueStrs :
        q \in DOMAIN ws[h].message_queues
        <=> \/ SubscribersOf(ws[h], q) # {}
            \/ (q \in DOMAIN ws[h].message_queues /\ ws[h].message_queues[q] # << >>)

\* C23: a message queue whose chat has no subscriber and whose channel is
\* empty is eventually removed from the manager (its worker has exited).
C23_WorkerExitsWithoutSubscribers ==
    \A h \in Conns : \A q \in QueueStrs :
        (/\ q \in DOMAIN ws[h].message_queues
         /\ ws[h].message_queues[q] = << >>
         /\ SubscribersOf(ws[h], q) = {})
        ~> (q \notin DOMAIN ws[h].message_queues)

\* C24: the step of disconnect that closes the session of c is its last
\* one (the registry was cleaned before it), and a connection whose
\* session is closed is in no subscriber set.
C24_DetachBeforeClose ==
    [][\A c \in Conns :
          (~session_closed[c] /\ session_closed'[c])
          => /\ pc'[c] = "done"
             /\ \A h \in Conns : \A q \in DOMAIN ws'[h].chats :
                   c \notin ws'[h].chats[q]]_vars

\* The receive loop of c has ended: its stream failed, or the handler
\* panicked on a frame that is no envelope.
LoopExited(c) == pc[c] \in {"cleanup", "panicked"}

\* C25: every exit of the receive loop of c leads to disconnect having run
\* for c.
C25_CleanupOnEveryExit ==
    \A c \in Conns : LoopExited(c) ~> (pc[c] = "done" /\ session_closed[c])

\* The handler of c took a frame with a parse error: a text that is no
\* envelope, or an envelope of an unknown type.
ParseError(c) ==
    \/ pc[c] = "panicked"
    \/ pc[c] = "status" /\ request[c].rtype = "other"

\* C26: a frame that is malformed or of an unknown type is answered with
\* Status(false), and after either the handler is receiving again (the
\* connection kept open).
C26_ParseErrorsAnswered ==
    \A c \in Conns :
        ParseError(c)
        ~> (pc[c] = "recv" /\ outbox[c] # << >> /\ LastFrame(c) = Status(FALSE))

\* A step in which the handling of a frame of c fails: the handler panics
\* on the parse, or it goes on to answer Status(false) (a message that is
\* missing or invalid, an insert that failed).
ErrorStep(c) ==
    \/ pc[c] # "panicked" /\ pc'[c] = "panicked"
    \/ pc[c] # "status" /\ pc'[c] = "status" /\ ~status_arg'[c]

C28_SharedRegistry ==
    \A a \in Conns : \A b \in Conns : \A q \in QueueStrs :
        Subscribed(b, q) =>
            /\ q \in DOMAIN ws[a].message_queues
            /\ \A m \in GoodMessages :
                  m.chat_id = q => SendRoute(ws[a], WithMessage("send", m)) = "queue"

\* The handler of c works on a "ping".
PingInHand(c) == request[c].rtype = "ping"

\* C29: a Ping is taken without a change of a manager or of the table, its
\* answer is the one frame Status(true), written without such a change
\* either, and every Ping taken is answered.
C29_PingAnswered ==
    /\ [][\A c \in Conns :
            /\ (pc[c] = "recv" /\ PingInHand(c)')
               => /\ pc'[c] = "status"
                  /\ status_arg'[c]
                  /\ ws' = ws
                  /\ store' = store
                  /\ outbox' = outbox
            /\ (pc[c] = "status" /\ PingInHand(c) /\ pc'[c] # "status")
               => /\ outbox'[c] = Append(outbox[c], Status(TRUE))
                  /\ pc'[c] = "recv"
                  /\ ws' = ws
                  /\ store' = store]_vars
    /\ \A c \in Conns :
          (pc[c] = "status" /\ PingInHand(c))
          ~> (pc[c] = "recv" /\ outbox[c] # << >> /\ LastFrame(c) = Status(TRUE))

\* A Ping is in hand on a connection that was answered before, while the
\* table holds a row and the other handler has a message queue.
C29_Witness ==
    \E c \in Conns : \E d \in Conns \ {c} :
        /\ pc[c] = "status"
        /\ PingInHand(c)
        /\ status_arg[c]
        /\ Len(store) >= 1
        /\ pc[d] = "processor"

\* C30: a text that decode_base64 accepted is what encode_base64 makes of
\* its bytes, and the bytes given to encode_base64 are what decode_base64
\* makes of its text.
C30_Base64RoundTrip ==
    codec.stage = 2 =>
        /\ codec.origin = "text" => codec.text = codec.input
        /\ codec.origin = "bytes" => (codec.ok /\ codec.bytes = codec.input)

\* A text of two groups that ends in padding was decoded and encoded again.
C30_Witness ==
    /\ codec.origin = "text"
    /\ codec.stage = 2
    /\ Len(codec.input) = 8
    /\ PadCount(codec.input) = 2

\* The envelope was written as a Send with its "type" and its "message",
\* the members of the message under their exact names, the nonce a number.
WellFormedSend(form) ==
    /\ form.tag = "send"
    /\ form.shape = "full"
    /\ form.names = << "queueId", "contentIV" >>
    /\ form.nonce = "number"

\* C31: an envelope {"type":"send","message":{nonce, queueId, signature,
\* content, contentIV}} parses to the Send variant with the five values it
\* was written with, whether or not its strings are base64.
C31_SendEnvelopeParses ==
    (codec.origin = "json" /\ codec.stage = 1 /\ WellFormedSend(codec.form))
    => /\ codec.ok
       /\ codec.income = WithMessage("send", codec.message)

\* A Send envelope with a queueId and a content that are not base64, its
\* members in reversed order, was parsed.
C31_Witness ==
    /\ codec.origin = "json"
    /\ codec.stage = 1
    /\ WellFormedSend(codec.form)
    /\ codec.form.reversed
    /\ codec.message.chat_id = "!!!"
    /\ codec.message.content = "plain text"

\* {"type":"response","response":{"status":b}}
StatusJson(b) ==
    JObj(<< Member("type", JStr("response")),
            Member("response", JObj(<< Member("status", JBool(b)) >>)) >>)

\* C32: a status response with status b serializes to
\* {"type":"response","response":{"status":b}}.
C32_StatusSerialization ==
    (codec.origin = "response" /\ codec.stage = 1 /\ codec.frame.type = "response")
    => codec.json = StatusJson(codec.frame.status)

\* Status(false) was serialized.
C32_Witness ==
    /\ codec.origin = "response"
    /\ codec.stage = 1
    /\ codec.frame = Status(FALSE)

\* The index of the last Status(true) among the frames (0 if none): the
\* frames after it belong to the request being answered.
LastStatusTrue(frames) ==
    IF \E k \in 1..Len(frames) : frames[k] = Status(TRUE)
    THEN SetMax({ k \in 1..Len(frames) : frames[k] = Status(TRUE) })
    ELSE 0

\* How many event/new frames of the chat with the nonce follow the last
\* Status(true).
EventsOf(frames, chat_id, nonce) ==
    Cardinality({ k \in (LastStatusTrue(frames) + 1)..Len(frames) :
                    /\ IsNewEvent(frames[k])
                    /\ frames[k].message.chat_id = chat_id
                    /\ frames[k].message.nonce = nonce })

\* The step ends the loop of unread_message_response of c with a batch
\* that was fetched and was short (a fetch that fails where no row is left
\* to send ends it the same way).
ReplayEnds(c) ==
    /\ pc[c] = "unread"
    /\ pc'[c] = "wait"
    /\ LET batch == fetch_history(store, ChatBytes(request[c].message),
                                  current_nonce[c], MESSAGES_LIMIT)
       IN  /\ Len(batch) < MESSAGES_LIMIT
           /\ outbox'[c] = new_event_responses(outbox[c], session_closed[c], batch)

\* C33: when unread_message_response started at nonce n ends, every stored
\* message of the queue with a nonce of at least n was sent exactly once,
\* whatever the number of such messages.
C33_BacklogExactlyOnce ==
    [][\A c \in Conns :
          ReplayEnds(c)
          => \A i \in RowsFrom(store, request[c].message.chat_id,
                               request[c].message.nonce) :
                EventsOf(outbox'[c], request[c].message.chat_id, store[i].nonce)
                    = Cardinality({ j \in RowsFrom(store, request[c].message.chat_id,
                                                   request[c].message.nonce) :
                                      store[j].nonce = store[i].nonce })]_vars

\* The handlers that run a message processor for chat q.
WorkersOf(q) ==
    { c \in Conns : pc[c] = "processor" /\ q \in DOMAIN ws[c].message_queues }

\* C34: for every queue at most one message processor runs and at most
\* one channel exists.
C34_OneWorkerPerQueue ==
    \A q \in QueueStrs :
        /\ Cardinality(WorkersOf(q)) <= 1
        /\ Cardinality({ c \in Conns : q \in DOMAIN ws[c].message_queues }) <= 1

C36_DetachReturns == \A c \in Conns : pc[c] # "hung"

\* The place of a frame among the frames written to a connection
FrameIndex(frames, frame) ==
    CHOOSE n \in 1..Len(frames) : frames[n] = frame

\* Calls that hold the session and are inside session.text
Writing == { i \in 1..Len(codec.calls) : codec.at[i] = "text" }

\* C37: at no time are two senders inside session.text on the same
\* connection, and of two calls of which one was awaited before the other
\* was made, the frame of the first is written before the frame of the
\* second.
C37_WritesExclusive ==
    codec.origin = "session" =>
        /\ Cardinality(Writing) <= 1
        /\ \A j \in 1..Len(codec.calls) : \A i \in codec.calls[j].after :
              (codec.at[j] = "returned" /\ ~session_closed[codec.connection]) =>
                  LET frames == outbox[codec.connection] IN
                  /\ \E n \in 1..Len(frames) : frames[n] = codec.calls[i].frame
                  /\ \E n \in 1..Len(frames) : frames[n] = codec.calls[j].frame
                  /\ FrameIndex(frames, codec.calls[i].frame)
                        < FrameIndex(frames, codec.calls[j].frame)

\* Witness for C37: one replay future is inside session.text while the
\* other replay future and the broadcast wait for the session, after the
\* Status frame was written.
C37_Witness ==
    /\ codec.origin = "session"
    /\ Len(codec.calls) = MESSAGES_LIMIT + 3
    /\ ~session_closed[codec.connection]
    /\ outbox[codec.connection] = << Status(TRUE) >>
    /\ Cardinality(Writing) = 1
    /\ Cardinality({ i \in 1..Len(codec.calls) : Callable(i) }) = MESSAGES_LIMIT

\* The subscribers broadcast_event found for the event's chat
BroadcastSubscribers ==
    LET chat_id == OutcomeFromIncome(codec.income).chat_id IN
    IF chat_id \in DOMAIN codec.ws.chats THEN codec.ws.chats[chat_id] ELSE {}

\* C38: when broadcast_event has returned, every subscriber of the event's
\* chat whose session is open was sent the event, whichever other
\* subscribers' sends failed.
C38_FanOutSurvivesFailure ==
    (codec.origin = "broadcast" /\ codec.stage = "returned") =>
        \A conn \in BroadcastSubscribers :
            ~session_closed[conn] =>
                outbox[conn] = << NewEvent(OutcomeFromIncome(codec.income)) >>

\* Witness for C38: broadcast_event returned after the send to one
\* subscriber failed and the other subscriber got the event.
C38_Witness ==
    /\ codec.origin = "broadcast"
    /\ codec.stage = "returned"
    /\ BroadcastSubscribers = Conns
    /\ \E bad \in Conns :
        /\ codec.failed = {bad}
        /\ outbox[bad] = << >>
        /\ \A conn \in Conns \ {bad} :
              outbox[conn] = << NewEvent(OutcomeFromIncome(codec.income)) >>

\* C39: no run of disconnect raises an error, also when the session was
\* closed before it, and a second run of disconnect leaves the registry as
\* the first run left it.
C39_CleanupIdempotent ==
    codec.origin = "cleanup" =>
        /\ ~codec.error
        /\ codec.runs = 2 =>
              /\ codec.ws = codec.first
              /\ session_closed[codec.connection]

\* Witness for C39: disconnect returned twice for a connection that the
\* registry held before the first run.
C39_Witness ==
    /\ codec.origin = "cleanup"
    /\ codec.runs = 2
    /\ codec.connection \in DOMAIN codec.input.connections
    /\ codec.connection \notin DOMAIN codec.ws.connections
    /\ codec.ws = codec.first

\* The number of Status frames among the frames written to a connection
StatusFrames(frames) ==
    Cardinality({ i \in 1..Len(frames) : frames[i].type = "response" })

\* The step hands a Send of c to a queue of c's manager.
Enqueued(c) ==
    \E q \in DOMAIN ws[c].message_queues :
        /\ q \in DOMAIN ws'[c].message_queues
        /\ Len(ws'[c].message_queues[q]) > Len(ws[c].message_queues[q])

\* C40: a request is answered with one Status frame, no less and no more:
\* a Status frame is written only by the status_response the handler
\* makes for the request in hand, and a Send handed to a queue goes on to
\* that status_response.
C40_OneStatusPerRequest ==
    [][\A c \in Conns :
          /\ StatusFrames(outbox'[c]) > StatusFrames(outbox[c]) => pc[c] = "status"
          /\ Enqueued(c) => pc'[c] = "status"]_vars

====
